---- MODULE Spec2Model ----
(***************************************************************************)
(* can_ready_v3.py: reads CAN frames from can0, decodes the Elster         *)
(* telegram carried by each frame, logs it according to --verbosity and    *)
(* publishes Answer telegrams to an MQTT broker.                           *)
(*                                                                         *)
(* Python text (str, f-strings) is modelled by TLA+ strings and \o.        *)
(* Python's None is the empty sequence for msg and tel, and the string     *)
(* "None" for mqtt_client.                                                 *)
(***************************************************************************)
EXTENDS Integers, Sequences, FiniteSets, TLC

VARIABLES
    pc,           \* position of main(): "mqtt", "bus", "recv", "finally", "done"
    verbosity,    \* args.verbosity
    mqtt_prefix,  \* args.mqtt_prefix
    mqtt_client,  \* "Client" or "None"
    connected,    \* outcome of the try block of lines 151-158
    sinkCalls,    \* names of the methods called on the MQTT client, in order
    console,      \* lines printed by main() itself
    received,     \* number of frames handed to parse_telegram so far
    msg,          \* result of the last bus.recv(): <<>> or <<data>>
    tel,          \* locals of the last parse_telegram call: <<>> or <<record>>
    log,          \* lines printed by the last loop iteration
    calls,        \* collaborator calls made by the last loop iteration
    exc           \* the exception that left the try block of lines 161-172

vars == <<pc, verbosity, mqtt_prefix, mqtt_client, connected,
          sinkCalls, console, received, msg, tel, log, calls, exc>>

(***************************************************************************)
(* Bounds of the model.                                                    *)
(***************************************************************************)
MaxFrames == 2        \* frames received before the run is cut off
MaxVerbosity == 3     \* largest --verbosity explored (argparse takes any int)

Verbosities == 0..MaxVerbosity
Prefixes == {"elster/", "home/elster/"}

(***************************************************************************)
(* Integer operators of Python used by parse_telegram.                     *)
(***************************************************************************)
RECURSIVE BitAnd(_, _)
BitAnd(a, b) ==
    IF a = 0 \/ b = 0 THEN 0
    ELSE (a % 2) * (b % 2) + 2 * BitAnd(a \div 2, b \div 2)

RECURSIVE BitOr(_, _)
BitOr(a, b) ==
    IF a = 0 THEN b
    ELSE IF b = 0 THEN a
    ELSE (IF a % 2 = 1 \/ b % 2 = 1 THEN 1 ELSE 0) + 2 * BitOr(a \div 2, b \div 2)

Shl(a, n) == a * (2 ^ n)

\* data[i] with Python's 0-based index
At(data, i) == data[i + 1]

(***************************************************************************)
(* Text rendering: str(int), format(n, "0wX"), bytes.hex().                *)
(***************************************************************************)
DecDigit == <<"0", "1", "2", "3", "4", "5", "6", "7", "8", "9">>
UpperHexDigit == <<"0", "1", "2", "3", "4", "5", "6", "7", "8", "9",
                   "A", "B", "C", "D", "E", "F">>
LowerHexDigit == <<"0", "1", "2", "3", "4", "5", "6", "7", "8", "9",
                   "a", "b", "c", "d", "e", "f">>

RECURSIVE StrNat(_)
StrNat(n) ==
    IF n < 10 THEN DecDigit[n + 1]
    ELSE StrNat(n \div 10) \o DecDigit[(n % 10) + 1]

StrInt(n) == IF n < 0 THEN "-" \o StrNat(0 - n) ELSE StrNat(n)

RECURSIVE HexNat(_)
HexNat(n) ==
    IF n < 16 THEN UpperHexDigit[n + 1]
    ELSE HexNat(n \div 16) \o UpperHexDigit[(n % 16) + 1]

RECURSIVE ZeroPad(_, _)
ZeroPad(s, width) == IF Len(s) >= width THEN s ELSE ZeroPad("0" \o s, width)

\* f"{n:0wX}"
FormatX(n, width) == ZeroPad(HexNat(n), width)

RECURSIVE BytesHex(_)
BytesHex(data) ==
    IF data = <<>> THEN ""
    ELSE LowerHexDigit[(Head(data) \div 16) + 1]
         \o LowerHexDigit[(Head(data) % 16) + 1]
         \o BytesHex(Tail(data))

(***************************************************************************)
(* elster_table.py: the registry and the value interpreter.                *)
(***************************************************************************)
ElsterTable ==
    (100 :> [Name |-> "AUSSENTEMP", EnglishName |-> "outside_temp",
             Type |-> "et_dec_val"])
    @@ (1 :> [Name |-> "FEHLERMELDUNG", Type |-> "et_default"])

lookup_elster_index(index) ==
    IF index \in DOMAIN ElsterTable THEN ElsterTable[index]
    ELSE [Name |-> "UNKNOWN", Type |-> "et_default"]

\* A value is a count of tenths that prints as a float, or a plain integer.
interpret_elster_value(raw_value, elster_type) ==
    IF elster_type = "et_dec_val"
    THEN [float |-> TRUE,
          num |-> IF raw_value >= 32768 THEN raw_value - 65536 ELSE raw_value]
    ELSE [float |-> FALSE, num |-> raw_value]

\* str(interpreted_value)
StrValue(v) ==
    IF v.float
    THEN LET mag == IF v.num < 0 THEN 0 - v.num ELSE v.num
         IN (IF v.num < 0 THEN "-" ELSE "")
            \o StrNat(mag \div 10) \o "." \o DecDigit[(mag % 10) + 1]
    ELSE StrInt(v.num)

(***************************************************************************)
(* parse_telegram: the locals computed from msg.data.                      *)
(***************************************************************************)
\* bytes 3 and 4 taken little-endian
elster_index_LittleEndian(data) == BitOr(Shl(At(data, 4), 8), At(data, 3))

elster_index(data) == BitOr(Shl(At(data, 3), 8), At(data, 4))

raw_val(data) ==
    IF Len(data) >= 7 THEN BitOr(Shl(At(data, 5), 8), At(data, 6)) ELSE 0

telegram_type(data) == BitAnd(At(data, 0), 15)

\* the high nibble shifted down to 0..15
address_high_Shifted(data) == BitAnd(At(data, 0), 240) \div 16

address_high(data) == BitAnd(At(data, 0), 240)

address_low(data) == At(data, 1)

can_id(data) == (address_high(data) * 8) + address_low(data)

\* the canonical name used whether or not an EnglishName exists
english_name_AlwaysName(entry) == entry["Name"]

\* entry.get("EnglishName", elster_name)
english_name(entry) ==
    IF "EnglishName" \in DOMAIN entry THEN entry["EnglishName"] ELSE entry["Name"]

\* a type_dict without the entry for 9
type_str_NoChange(ttype) ==
    CASE ttype = 1 -> "[Request]"
      [] ttype = 2 -> "[Answer]"
      [] OTHER -> "[Unknown]"

\* type_dict.get(telegram_type, "[Unknown]")
type_str(ttype) ==
    CASE ttype = 1 -> "[Request]"
      [] ttype = 2 -> "[Answer]"
      [] ttype = 9 -> "[Change]"
      [] OTHER -> "[Unknown]"

Locals(data) ==
    LET entry == lookup_elster_index(elster_index(data))
    IN [elster_index |-> elster_index(data),
        raw_val |-> raw_val(data),
        telegram_type |-> telegram_type(data),
        address_high |-> address_high(data),
        address_low |-> address_low(data),
        can_id |-> can_id(data),
        elster_name |-> entry["Name"],
        elster_type |-> entry["Type"],
        english_name |-> english_name(entry),
        interpreted_value |-> interpret_elster_value(raw_val(data), entry["Type"]),
        type_str |-> type_str(telegram_type(data))]

(***************************************************************************)
(* parse_telegram: the lines it prints.                                    *)
(***************************************************************************)
InvalidLine(data) == "[Invalid] Too few bytes: " \o BytesHex(data)

FullLine(t) ==
    t.type_str \o " CAN-ID: " \o FormatX(t.can_id, 3) \o " | "
    \o "Elster-Index: 0x" \o FormatX(t.elster_index, 4)
    \o " (" \o t.elster_name \o ") | "
    \o "Value: " \o StrValue(t.interpreted_value)
    \o " | Type: " \o t.elster_type

TerseLine(t) ==
    "Ans 0x" \o FormatX(t.elster_index, 4) \o " -> " \o StrValue(t.interpreted_value)

\* str(msg) of a can.Message, reduced to its payload
StrMessage(data) == "DL: " \o StrNat(Len(data)) \o " " \o BytesHex(data)

DebugBlock(data, t) ==
    << "  [DEBUG] Raw message: " \o StrMessage(data),
       "  [DEBUG] data(hex): " \o BytesHex(data),
       "  [DEBUG] raw_val: " \o StrInt(t.raw_val) >>

\* the terse line printed by an if of its own, at every verbosity >= 1
LogOutput_TerseNotExclusive(v, data, t) ==
    (IF v >= 2 THEN <<FullLine(t)>> ELSE <<>>)
    \o (IF v >= 1 /\ t.telegram_type = 2 THEN <<TerseLine(t)>> ELSE <<>>)
    \o (IF v >= 3 THEN DebugBlock(data, t) ELSE <<>>)

LogOutput(v, data, t) ==
    (IF v >= 2 THEN <<FullLine(t)>>
     ELSE IF v = 1 /\ t.telegram_type = 2 THEN <<TerseLine(t)>>
     ELSE <<>>)
    \o (IF v >= 3 THEN DebugBlock(data, t) ELSE <<>>)

(***************************************************************************)
(* parse_telegram: the publish decision and the call it makes.             *)
(***************************************************************************)
\* the check for a configured client left out
ShouldPublish_NoSinkCheck(client, ttype) == ttype = 2

ShouldPublish(client, ttype) == client # "None" /\ ttype = 2

Topic(prefix, t) == prefix \o t.english_name

Call(fn, args) == [fn |-> fn, args |-> args, raised |-> FALSE]

PublishCalls(client, prefix, t) ==
    IF ShouldPublish(client, t.telegram_type)
    THEN <<Call("publish", <<Topic(prefix, t), StrValue(t.interpreted_value)>>)>>
    ELSE <<>>

\* the diagnostic printed at every verbosity
ShortFrame_AlwaysLogs(data, v) ==
    [tel |-> <<>>, log |-> <<InvalidLine(data)>>, calls |-> <<>>]

ShortFrame(data, v) ==
    [tel |-> <<>>,
     log |-> IF v >= 2 THEN <<InvalidLine(data)>> ELSE <<>>,
     calls |-> <<>>]

\* The whole of parse_telegram, as the telegram, the lines and the calls of
\* one invocation.
parse_telegram(data, client, prefix, v) ==
    IF Len(data) < 5 THEN ShortFrame(data, v)
    ELSE LET t == Locals(data)
         IN [tel |-> <<t>>,
             log |-> LogOutput(v, data, t),
             calls |-> << Call("lookup_elster_index", <<t.elster_index>>),
                          Call("interpret_elster_value", <<t.raw_val, t.elster_type>>) >>
                       \o PublishCalls(client, prefix, t)]

Publishes(cs) == SelectSeq(cs, LAMBDA c : c.fn = "publish")

(***************************************************************************)
(* Frames the bus delivers: payloads of 0 to 8 bytes.                      *)
(***************************************************************************)
TypeBytes == {17, 18, 25, 16, 242}
IndexBytes == {<<0, 100>>, <<1, 0>>}
ValueBytes == {<<1, 44>>, <<255, 251>>}

FullFrames ==
    { <<b0, 5, 0, ix[1], ix[2], val[1], val[2], 0>> :
        b0 \in TypeBytes, ix \in IndexBytes, val \in ValueBytes }

Frames == { SubSeq(f, 1, n) : f \in FullFrames, n \in 0..8 }

\* A wider set of payloads for the field extraction alone: every value of
\* byte 0, and the extreme values of the other bytes parse_telegram reads.
WideFullFrames ==
    { <<b0, b1, 0, b3, b4, b5, b6, 0>> :
        b0 \in 0..255, b1 \in {5, 255}, b3 \in {0, 1, 255}, b4 \in {0, 100},
        b5 \in {0, 1, 255}, b6 \in {44, 255} }

WideFrames == { SubSeq(f, 1, n) : f \in WideFullFrames, n \in 0..8 }

(***************************************************************************)
(* main()                                                                  *)
(***************************************************************************)
Init ==
    /\ pc = "mqtt"
    /\ verbosity \in Verbosities
    /\ mqtt_prefix \in Prefixes
    /\ mqtt_client = "None"
    /\ connected = "pending"
    /\ sinkCalls = <<>>
    /\ console = <<>>
    /\ received = 0
    /\ msg = <<>>
    /\ tel = <<>>
    /\ log = <<>>
    /\ calls = <<>>
    /\ exc = "none"

\* lines 141-144
StartupLines ==
    IF verbosity >= 1
    THEN << "Starting CAN reader & Elster interpretation ...",
            "======================================================================",
            "MQTT server: <server>:<port>, user=<user>" >>
    ELSE <<>>

\* lines 140-153: connect() and loop_start() return
MqttConnected ==
    /\ pc = "mqtt"
    /\ console' = console \o StartupLines
    /\ sinkCalls' = sinkCalls \o <<"connect", "loop_start">>
    /\ mqtt_client' = "Client"
    /\ connected' = "ok"
    /\ pc' = "bus"
    /\ UNCHANGED <<verbosity, mqtt_prefix, received, msg, tel, log,
                   calls, exc>>

\* the handler without line 158
MqttConnectFails_KeepsClient ==
    /\ pc = "mqtt"
    /\ console' = console \o StartupLines
    /\ sinkCalls' = sinkCalls \o <<"connect">>
    /\ mqtt_client' = "Client"
    /\ connected' = "failed"
    /\ pc' = "bus"
    /\ UNCHANGED <<verbosity, mqtt_prefix, received, msg, tel, log, calls, exc>>

\* lines 140-158: connect() raises, the handler drops the client.  The handler
\* covers the whole try block and reports any exception of it as a failed
\* connect.
MqttConnectFails ==
    /\ pc = "mqtt"
    /\ console' = console \o StartupLines
                  \o (IF verbosity >= 1
                      THEN <<"[MQTT] Could not connect: <e>",
                             "Continuing without MQTT ...">>
                      ELSE <<>>)
    /\ sinkCalls' = sinkCalls \o <<"connect">>
    /\ mqtt_client' = "None"
    /\ connected' = "failed"
    /\ pc' = "bus"
    /\ UNCHANGED <<verbosity, mqtt_prefix, received, msg, tel, log,
                   calls, exc>>

\* line 162: the socketcan interface opens
BusOpened ==
    /\ pc = "bus"
    /\ pc' = "recv"
    /\ UNCHANGED <<verbosity, mqtt_prefix, mqtt_client, connected,
                   sinkCalls, console, received, msg, tel, log, calls, exc>>

\* lines 162, 165: can.interface.Bus() or bus.recv() raises; no handler of
\* the try statement matches, the finally clause runs
BusError ==
    /\ pc \in {"bus", "recv"}
    /\ exc' = "CanError"
    /\ pc' = "finally"
    /\ UNCHANGED <<verbosity, mqtt_prefix, mqtt_client, connected,
                   sinkCalls, console, received, msg, tel, log, calls>>

\* lines 165-167: recv times out, msg is None, continue
RecvTimeout ==
    /\ pc = "recv"
    /\ msg' = <<>>
    /\ tel' = <<>>
    /\ log' = <<>>
    /\ calls' = <<>>
    /\ UNCHANGED <<pc, verbosity, mqtt_prefix, mqtt_client, connected,
                   sinkCalls, console, received, exc>>

\* lines 165-172: a frame arrives, parse_telegram returns
RecvFrame ==
    /\ pc = "recv"
    /\ received < MaxFrames
    /\ \E data \in Frames :
          LET r == parse_telegram(data, mqtt_client, mqtt_prefix, verbosity)
          IN /\ msg' = <<data>>
             /\ tel' = r.tel
             /\ log' = r.log
             /\ calls' = r.calls
             /\ sinkCalls' = sinkCalls
                             \o [i \in 1..Len(Publishes(r.calls)) |-> "publish"]
    /\ received' = received + 1
    /\ UNCHANGED <<pc, verbosity, mqtt_prefix, mqtt_client, connected,
                   console, exc>>

\* lines 165-172 with line 117 raising: the exception leaves parse_telegram
\* and the while loop; no handler matches, the finally clause runs
RecvFramePublishRaises ==
    /\ pc = "recv"
    /\ received < MaxFrames
    /\ \E data \in Frames :
          LET r == parse_telegram(data, mqtt_client, mqtt_prefix, verbosity)
              n == Len(r.calls)
          IN /\ Publishes(r.calls) # <<>>
             /\ msg' = <<data>>
             /\ tel' = r.tel
             /\ log' = r.log
             /\ calls' = [r.calls EXCEPT ![n].raised = TRUE]
             /\ sinkCalls' = sinkCalls
                             \o [i \in 1..Len(Publishes(r.calls)) |-> "publish"]
    /\ received' = received + 1
    /\ exc' = "PublishError"
    /\ pc' = "finally"
    /\ UNCHANGED <<verbosity, mqtt_prefix, mqtt_client, connected,
                   console>>

\* lines 173-175: Ctrl+C inside the try statement
Interrupt ==
    /\ pc \in {"bus", "recv"}
    /\ exc' = "KeyboardInterrupt"
    /\ console' = console \o (IF verbosity >= 1
                              THEN <<"\nInterrupted by user (Ctrl+C).">>
                              ELSE <<>>)
    /\ pc' = "finally"
    /\ UNCHANGED <<verbosity, mqtt_prefix, mqtt_client, connected,
                   sinkCalls, received, msg, tel, log, calls>>

\* the finally clause without line 182
Finally_NoDisconnect ==
    /\ pc = "finally"
    /\ console' = console \o (IF verbosity >= 1 THEN <<"\nExiting.">> ELSE <<>>)
    /\ sinkCalls' = sinkCalls \o (IF mqtt_client # "None"
                                  THEN <<"loop_stop">>
                                  ELSE <<>>)
    /\ pc' = "done"
    /\ UNCHANGED <<verbosity, mqtt_prefix, mqtt_client, connected,
                   received, msg, tel, log, calls, exc>>

\* lines 177-182
Finally ==
    /\ pc = "finally"
    /\ console' = console \o (IF verbosity >= 1 THEN <<"\nExiting.">> ELSE <<>>)
    /\ sinkCalls' = sinkCalls \o (IF mqtt_client # "None"
                                  THEN <<"loop_stop", "disconnect">>
                                  ELSE <<>>)
    /\ pc' = "done"
    /\ UNCHANGED <<verbosity, mqtt_prefix, mqtt_client, connected,
                   received, msg, tel, log, calls, exc>>

Next ==
    \/ MqttConnected
    \/ MqttConnectFails
    \/ BusOpened
    \/ BusError
    \/ RecvTimeout
    \/ RecvFrame
    \/ RecvFramePublishRaises
    \/ Interrupt
    \/ Finally

Spec == Init /\ [][Next]_vars

(***************************************************************************)
(* parse_telegram alone, applied once to a payload of WideFrames.          *)
(***************************************************************************)
InitFields ==
    /\ pc = "call"
    /\ verbosity = 2
    /\ mqtt_prefix = "elster/"
    /\ mqtt_client = "Client"
    /\ connected = "ok"
    /\ sinkCalls = <<"connect", "loop_start">>
    /\ console = <<>>
    /\ received = 0
    /\ msg \in { <<data>> : data \in WideFrames }
    /\ tel = <<>>
    /\ log = <<>>
    /\ calls = <<>>
    /\ exc = "none"

CallParseTelegram ==
    /\ pc = "call"
    /\ LET r == parse_telegram(msg[1], mqtt_client, mqtt_prefix, verbosity)
       IN /\ tel' = r.tel
          /\ log' = r.log
          /\ calls' = r.calls
          /\ sinkCalls' = sinkCalls
                          \o [i \in 1..Len(Publishes(r.calls)) |-> "publish"]
    /\ received' = received + 1
    /\ pc' = "returned"
    /\ UNCHANGED <<verbosity, mqtt_prefix, mqtt_client, connected, console, msg, exc>>

NextFields == CallParseTelegram

SpecFields == InitFields /\ [][NextFields]_vars

TypeOK ==
    /\ pc \in {"mqtt", "bus", "recv", "finally", "done", "call", "returned"}
    /\ mqtt_client \in {"Client", "None"}
    /\ connected \in {"pending", "ok", "failed"}
    /\ received \in 0..MaxFrames
    /\ Len(msg) <= 1 /\ Len(tel) <= 1
    /\ exc \in {"none", "CanError", "PublishError", "KeyboardInterrupt"}

(***************************************************************************)
(* Properties.  Each is stated from the frame bytes in msg, with plain     *)
(* arithmetic in place of the bit operators of the code.                   *)
(***************************************************************************)
Data == msg[1]
Decodable == msg # <<>> /\ Len(Data) >= 5
LowNibble == Data[1] % 16
HighNibble == Data[1] \div 16
IsAnswerFrame == Decodable /\ LowNibble = 2
Count(seq, x) == Len(SelectSeq(seq, LAMBDA e : e = x))
Lines(seq) == { seq[i] : i \in 1..Len(seq) }

\* The log of one decoded telegram, by verbosity tier.
TierLog ==
    LET t == tel[1]
    IN CASE verbosity <= 0 -> <<>>
         [] verbosity = 1 -> IF LowNibble = 2 THEN <<TerseLine(t)>> ELSE <<>>
         [] verbosity = 2 -> <<FullLine(t)>>
         [] OTHER -> <<FullLine(t)>> \o DebugBlock(Data, t)

\* C1: for every received frame, publish is called exactly once if a client
\* is configured, the frame has at least 5 bytes and byte[0] & 0x0F is 2;
\* otherwise it is not called and processing does not fail.
C1_PublishIffAnswerAndSink ==
    msg # <<>> =>
        LET n == Len(Publishes(calls))
        IN /\ n = (IF mqtt_client # "None" /\ IsAnswerFrame THEN 1 ELSE 0)
           /\ n = 0 => exc # "PublishError"
           /\ n = 0 /\ Decodable => tel # <<>>

C1_Witness ==
    /\ pc = "recv" /\ received = MaxFrames
    /\ mqtt_client = "Client" /\ IsAnswerFrame
    /\ Len(Publishes(calls)) = 1

\* C2: a frame of fewer than 5 bytes yields no telegram, no registry lookup,
\* no interpretation and no publish; the invalid-frame line is printed iff
\* verbosity >= 2; parse_telegram returns and the loop goes on.
C2_ShortFrameState ==
    msg # <<>> /\ Len(Data) < 5 =>
        /\ tel = <<>>
        /\ calls = <<>>
        /\ log = (IF verbosity >= 2 THEN <<InvalidLine(Data)>> ELSE <<>>)
        /\ exc # "PublishError"

C2_ShortFrameStep ==
    (pc = "recv" /\ received' = received + 1 /\ Len(msg'[1]) < 5)
        => (pc' = "recv" /\ exc' = exc /\ sinkCalls' = sinkCalls)

C2_ShortFrameDropped == []C2_ShortFrameState /\ [][C2_ShortFrameStep]_vars

C2_Witness ==
    /\ pc = "recv" /\ msg # <<>> /\ Len(Data) = 4
    /\ verbosity >= 2 /\ Len(log) = 1

\* C3: for a frame of at least 5 bytes the index is byte[3]*256 + byte[4];
\* the raw value is byte[5]*256 + byte[6] from 7 bytes on and 0 for 5 or 6
\* bytes; both lie in 0..65535.
C3_IndexAndRawValue ==
    /\ pc = "returned" /\ Decodable => tel # <<>>
    /\ tel # <<>> =>
          /\ tel[1].elster_index = Data[4] * 256 + Data[5]
          /\ tel[1].raw_val = (IF Len(Data) >= 7 THEN Data[6] * 256 + Data[7] ELSE 0)
          /\ tel[1].elster_index \in 0..65535
          /\ tel[1].raw_val \in 0..65535

C3_Witness ==
    /\ tel # <<>> /\ Len(Data) = 6 /\ Data[6] = 255
    /\ tel[1].raw_val = 0 /\ tel[1].elster_index = 65380

\* C4: the kind is a function of the low nibble of byte[0] alone: 1 is
\* Request, 2 Answer, 9 Change and the 13 other values Unknown; an Unknown
\* telegram is decoded like the others.
C4_KindMapping ==
    /\ pc = "returned" /\ Decodable => tel # <<>> /\ exc = "none"
    /\ tel # <<>> =>
          /\ tel[1].telegram_type = LowNibble
          /\ tel[1].type_str =
                (CASE LowNibble = 1 -> "[Request]"
                   [] LowNibble = 2 -> "[Answer]"
                   [] LowNibble = 9 -> "[Change]"
                   [] LowNibble \in (0..15) \ {1, 2, 9} -> "[Unknown]")

C4_Witness ==
    /\ tel # <<>> /\ HighNibble = 15 /\ LowNibble = 9
    /\ tel[1].type_str = "[Change]"

\* C5: every publish call has the topic mqtt_prefix followed by the entry's
\* EnglishName, or its Name when it has none, and the payload str() of the
\* value interpreted from the same frame.
C5_TopicAndPayload ==
    \A i \in 1..Len(calls) :
        calls[i].fn = "publish" =>
            LET entry == lookup_elster_index(Data[4] * 256 + Data[5])
                display == IF "EnglishName" \in DOMAIN entry
                           THEN entry["EnglishName"] ELSE entry["Name"]
                raw == IF Len(Data) >= 7 THEN Data[6] * 256 + Data[7] ELSE 0
                value == interpret_elster_value(raw, entry["Type"])
            IN calls[i].args = <<mqtt_prefix \o display, StrValue(value)>>

C5_Witness ==
    /\ received = MaxFrames /\ mqtt_prefix = "home/elster/"
    /\ Publishes(calls) # <<>>
    /\ Publishes(calls)[1].args = <<"home/elster/outside_temp", "-0.5">>

\* C6: a failure raised by publish never ends the receive loop; only a
\* transport failure or a user interrupt does.
C6_PublishFailureNeverEndsLoop ==
    pc \in {"finally", "done"} => exc \in {"CanError", "KeyboardInterrupt"}

\* C7: after a failed connect the client is None, main goes on to the bus
\* and the receive loop, frames are decoded and logged by verbosity, and
\* publish, loop_stop and disconnect are never called.
C7_ConnectFailureNotFatal ==
    connected = "failed" =>
        /\ mqtt_client = "None"
        /\ pc \in {"bus", "recv", "finally", "done"}
        /\ exc \in {"none", "CanError", "KeyboardInterrupt"}
        /\ \A c \in {"publish", "loop_start", "loop_stop", "disconnect"} :
              Count(sinkCalls, c) = 0
        /\ Publishes(calls) = <<>>
        /\ Decodable => tel # <<>> /\ log = TierLog

C7_Witness ==
    /\ connected = "failed" /\ pc = "done" /\ received = MaxFrames
    /\ IsAnswerFrame /\ verbosity = 1 /\ Len(log) = 1

\* C8: for a decoded telegram, verbosity 0 prints nothing; 1 prints the
\* terse line, for an Answer only; 2 and above print one full line and no
\* terse line; 3 and above add the debug block after it; terse and full
\* line never appear together, and publishing does not depend on verbosity.
C8_LogByVerbosity ==
    tel # <<>> =>
        /\ log = TierLog
        /\ ~ (TerseLine(tel[1]) \in Lines(log) /\ FullLine(tel[1]) \in Lines(log))
        /\ Len(Publishes(calls)) =
              (IF mqtt_client # "None" /\ LowNibble = 2 THEN 1 ELSE 0)

C8_Witness ==
    /\ tel # <<>> /\ verbosity = 3 /\ LowNibble = 2
    /\ Len(log) = 4 /\ log[1] = FullLine(tel[1])

\* C9 as claimed: addressHigh is the high nibble as a value in 0..15, and
\* the device address exceeds addressLow by 8 times that, at most 127.
C9_AddressHighIsNibbleValue ==
    tel # <<>> =>
        /\ tel[1].address_high \in 0..15
        /\ tel[1].can_id = HighNibble * 8 + Data[2]
        /\ tel[1].can_id - Data[2] \in 0..127

\* C9: the device address is addressHigh * 8 + addressLow where addressLow
\* is byte[1] and addressHigh is byte[0] & 0xF0, a multiple of 16 in
\* 0..240, so that it exceeds addressLow by a multiple of 128 in 0..1920.
C9_AddressHighIsMaskedByte ==
    tel # <<>> =>
        /\ tel[1].address_low = Data[2]
        /\ tel[1].address_high = HighNibble * 16
        /\ tel[1].can_id = tel[1].address_high * 8 + tel[1].address_low
        /\ tel[1].can_id - Data[2] \in { 128 * k : k \in 0..15 }

C9_Witness ==
    /\ tel # <<>> /\ Data[1] = 18 /\ Data[2] = 5
    /\ tel[1].can_id = 133

\* C10: when main is done, loop_stop and disconnect have each been called
\* once, in this order and after every publish, iff the start-up connect
\* succeeded, and not at all before; a receive timeout decodes, prints and
\* publishes nothing.
C10_ShutdownState ==
    /\ pc = "done" =>
          /\ exc # "none"
          /\ Count(sinkCalls, "loop_stop") = (IF connected = "ok" THEN 1 ELSE 0)
          /\ Count(sinkCalls, "disconnect") = (IF connected = "ok" THEN 1 ELSE 0)
          /\ connected = "ok" =>
                /\ sinkCalls[Len(sinkCalls)] = "disconnect"
                /\ sinkCalls[Len(sinkCalls) - 1] = "loop_stop"
    /\ pc # "done" =>
          Count(sinkCalls, "loop_stop") = 0 /\ Count(sinkCalls, "disconnect") = 0
    /\ pc = "recv" /\ msg = <<>> => tel = <<>> /\ log = <<>> /\ calls = <<>>

C10_TimeoutStep ==
    (pc = "recv" /\ pc' = "recv" /\ msg' = <<>>)
        => (sinkCalls' = sinkCalls /\ console' = console /\ received' = received)

====
